---- MODULE Spec2Model ----
(***************************************************************************)
(* Model of rusty_read (src/src/main.rs): a terminal file browser.        *)
(*                                                                         *)
(* A path string is modelled as the sequence of its "/"-separated          *)
(* components: "." is <<".">>, "./docs" is <<".", "docs">>, "/h/w" is      *)
(* <<"", "h", "w">> and "/" is <<"", "">>.  With this representation       *)
(* format!("{}/{}", a, b) is the concatenation a \o b.                     *)
(* A filesystem node is the sequence of names leading to it from the root. *)
(* selected and scroll are 0-based as in the code; files is 1-based.       *)
(***************************************************************************)
EXTENDS Integers, Sequences, FiniteSets, TLC

\* Number of plain files of the start directory /h/w between its first
\* entries and its last one; the directory has NumFiller + 5 entries.
NumFiller == 17

\* let display_count = 20
display_count == 20

\* const MAX_LINES: usize = 20
MAX_LINES == 20

-----------------------------------------------------------------------------
(* The filesystem the program runs on (the external world of                *)
(* WalkDir / canonicalize).                                                  *)

Root == <<>>
Work == <<"h", "w">>
NoNode == <<"?">>

FillerName(i) == "f" \o ToString(i)

FillerNames == [i \in 1..NumFiller |-> FillerName(i)]

\* The immediate children of a directory node, in enumeration order.
Children(node) ==
    CASE node = Root -> <<"h">>
      [] node = <<"h">> -> <<"w", "notes.txt", "priv">>
      [] node = <<"h", "priv">> -> <<"in">>
      [] node = <<"h", "priv", "in">> -> <<"i.txt">>
      [] node = Work ->
            <<"docs", "readme.txt", "empty", "locked">> \o FillerNames \o <<"zdir">>
      [] node = Work \o <<"docs">> -> <<"sub", "a.txt", "docs">>
      [] node = Work \o <<"docs", "sub">> -> <<"x.txt">>
      [] node = Work \o <<"docs", "docs">> -> <<"sub">>
      [] node = Work \o <<"docs", "docs", "sub">> -> <<"y.txt">>
      [] node = Work \o <<"zdir">> -> <<"z.txt", "old.txt">>
      [] OTHER -> <<>>

Dirs ==
    { Root, <<"h">>, <<"h", "priv">>, <<"h", "priv", "in">>,
      Work, Work \o <<"docs">>, Work \o <<"docs", "sub">>,
      Work \o <<"docs", "docs">>, Work \o <<"docs", "docs", "sub">>,
      Work \o <<"empty">>, Work \o <<"locked">>, Work \o <<"zdir">> }

\* Directories that exist but cannot be opened (permission denied).
Unreadable == { Work \o <<"locked">> }

\* Directories that can be traversed but not listed (search permission only).
ListDenied == { <<"h", "priv">> }

\* Working directories the program may be started in.
StartDirs == { Work, Work \o <<"empty">>, Work \o <<"docs">>, Root, <<"h", "priv", "in">> }

IsDirNode(node) == node \in Dirs

InSeq(x, s) == \E i \in 1..Len(s) : s[i] = x

Exists(node) ==
    \/ node = Root
    \/ /\ Len(node) > 0
       /\ SubSeq(node, 1, Len(node) - 1) \in Dirs
       /\ InSeq(node[Len(node)], Children(SubSeq(node, 1, Len(node) - 1)))

-----------------------------------------------------------------------------
(* Path strings.                                                            *)

\* Walk the components of p from node at; "" and "." stay in place.
RECURSIVE Walk(_, _)
Walk(at, p) ==
    IF at = NoNode THEN NoNode
    ELSE IF p = <<>> THEN at
    ELSE IF Head(p) = "" \/ Head(p) = "." THEN
        IF at \in Dirs THEN Walk(at, Tail(p)) ELSE NoNode
    ELSE IF at \in Dirs /\ at \notin Unreadable /\ Exists(at \o <<Head(p)>>)
        THEN Walk(at \o <<Head(p)>>, Tail(p))
        ELSE NoNode

\* The node a path string names for a process whose working directory is wd.
Resolve(wd, p) ==
    IF p = <<>> THEN NoNode
    ELSE IF Head(p) = "" THEN Walk(Root, Tail(p))
    ELSE Walk(wd, p)

\* Path::to_string_lossy of an absolute, canonical path.
AbsString(node) == IF node = Root THEN <<"", "">> ELSE <<"">> \o node

\* Path::join(name): no separator is added after a trailing "/".
JoinPath(p, name) ==
    IF Len(p) > 0 /\ p[Len(p)] = ""
        THEN SubSeq(p, 1, Len(p) - 1) \o <<name>>
        ELSE p \o <<name>>

\* str::trim_start_matches("./"): strips every leading "./".
RECURSIVE TrimDotSlash(_)
TrimDotSlash(p) ==
    IF Len(p) >= 2 /\ Head(p) = "." THEN TrimDotSlash(Tail(p)) ELSE p

\* Path::file_name of an entry path: its last component.
FileName(p) == p[Len(p)]

-----------------------------------------------------------------------------
(* File contents, for the preview.                                          *)

BadLine == "<invalid utf-8>"

RECURSIVE LineSeq(_)
LineSeq(n) == IF n = 0 THEN <<>> ELSE LineSeq(n - 1) \o <<"line" \o ToString(n)>>

\* The lines of a file node.
Lines(node) ==
    CASE node = Work \o <<"readme.txt">> -> LineSeq(MAX_LINES + 3)
      [] node = Work \o <<"docs", "a.txt">> -> LineSeq(2)
      [] node = Work \o <<"zdir", "z.txt">> -> <<"line1", BadLine>>
      [] node = Work \o <<FillerName(2)>> -> LineSeq(MAX_LINES) \o <<BadLine>>
      [] node = Work \o <<FillerName(3)>> -> LineSeq(MAX_LINES)
      [] OTHER -> <<>>

\* Files that exist but cannot be opened.
Unopenable == { Work \o <<FillerName(1)>> }

\* Files whose modification time lies before UNIX_EPOCH.
PreEpoch == { Work \o <<"zdir", "old.txt">> }

-----------------------------------------------------------------------------
(* Leaf functions of main.rs.                                               *)

\* struct FileSystemEntry { path, is_dir }
FileSystemEntry(p, d) == [path |-> p, is_dir |-> d]

\* list_directory_contents: the root's own error is filtered out, so a path
\* that cannot be walked yields the empty vector.
list_directory_contents(wd, p) ==
    LET node == Resolve(wd, p) IN
    IF node \in Dirs /\ node \notin Unreadable /\ node \notin ListDenied
        THEN [i \in 1..Len(Children(node)) |->
                FileSystemEntry(JoinPath(p, Children(node)[i]),
                                IsDirNode(node \o <<Children(node)[i]>>))]
        ELSE <<>>

Min(a, b) == IF a < b THEN a ELSE b

\* Variant of read_file_preview without take(MAX_LINES).
read_file_preview_NoLimit(wd, p) ==
    LET node == Resolve(wd, p) IN
    IF node = NoNode \/ node \in Unopenable THEN <<"Cannot open file">>
    ELSE IF InSeq(BadLine, Lines(node)) THEN <<"Error reading file">> ELSE Lines(node)

\* read_file_preview: the text as its sequence of lines.
read_file_preview(wd, p) ==
    LET node == Resolve(wd, p) IN
    IF node = NoNode \/ node \in Unopenable THEN <<"Cannot open file">>
    ELSE LET taken == SubSeq(Lines(node), 1, Min(MAX_LINES, Len(Lines(node)))) IN
         IF InSeq(BadLine, taken) THEN <<"Error reading file">> ELSE taken

\* generate_file_info panics in expect("Time went backwards") when
\* duration_since(UNIX_EPOCH) is an Err.
InfoPanics(wd, p) == Resolve(wd, p) \in PreEpoch

\* generate_file_info
generate_file_info(wd, p) ==
    IF Resolve(wd, p) = NoNode
        THEN [ok |-> FALSE, text |-> "Cannot retrieve file info", name |-> <<>>]
        ELSE [ok |-> TRUE, text |-> "Name/Size/Modified", name |-> p]

-----------------------------------------------------------------------------
(* The state of main.                                                       *)

VARIABLES
    cwd,              \* working directory of the process (a node)
    overflow_checks,  \* build profile: TRUE = debug (arithmetic overflow panics)
    pc,               \* position in main
    outcome,          \* "running", or how main ended: "Ok", "Err", "panic"
    raw_mode,         \* terminal is in raw mode
    alt_screen,       \* terminal shows the alternate screen
    teardown,         \* teardown calls of lines 220-221 executed so far
    current_path,
    files,
    selected,
    scroll,
    frame,            \* what the last terminal.draw painted
    h1,               \* the last event read and the state it was applied to
    h2                \* the event before that

nav == <<current_path, files, selected, scroll>>

vars == <<cwd, overflow_checks, pc, outcome, raw_mode, alt_screen, teardown,
          current_path, files, selected, scroll, frame, h1, h2>>

NoFrame == [rows |-> <<>>, preview |-> <<>>, info |-> <<>>, inspected |-> {}]

NoEvent == [ev |-> "none", path |-> <<>>, files |-> <<>>, sel |-> 0, scroll |-> 0]

\* The event being handled, with the navigation state it is applied to.
Snapshot(ev) ==
    [ev |-> ev, path |-> current_path, files |-> files, sel |-> selected,
     scroll |-> scroll]

Record(ev) == h1' = Snapshot(ev) /\ h2' = h1

Init ==
    /\ cwd \in StartDirs
    /\ overflow_checks \in BOOLEAN
    /\ pc = "enable_raw"
    /\ outcome = "running"
    /\ raw_mode = FALSE
    /\ alt_screen = FALSE
    /\ teardown = {}
    /\ current_path = <<>>
    /\ files = <<>>
    /\ selected = 0
    /\ scroll = 0
    /\ frame = NoFrame
    /\ h1 = NoEvent
    /\ h2 = NoEvent

\* `?` on an Err: main returns the error at once.
ReturnErr == pc' = "exited" /\ outcome' = "Err"

\* A panic unwinds main; nothing restores the terminal modes.
Panic == pc' = "exited" /\ outcome' = "panic"

\* enable_raw_mode()?
EnableRawMode ==
    /\ pc = "enable_raw"
    /\ \E ok \in BOOLEAN :
        IF ok THEN raw_mode' = TRUE /\ pc' = "enter_alt" /\ UNCHANGED outcome
              ELSE ReturnErr /\ UNCHANGED raw_mode
    /\ UNCHANGED <<cwd, overflow_checks, alt_screen, teardown, nav, frame, h1, h2>>

\* execute!(stdout, EnterAlternateScreen)?
EnterAlternateScreen ==
    /\ pc = "enter_alt"
    /\ \E ok \in BOOLEAN :
        IF ok THEN alt_screen' = TRUE /\ pc' = "terminal_new" /\ UNCHANGED outcome
              ELSE ReturnErr /\ UNCHANGED alt_screen
    /\ UNCHANGED <<cwd, overflow_checks, raw_mode, teardown, nav, frame, h1, h2>>

\* Terminal::new(backend)? and the initial navigation state.
TerminalNew ==
    /\ pc = "terminal_new"
    /\ \E ok \in BOOLEAN :
        IF ok THEN /\ current_path' = <<".">>
                   /\ files' = list_directory_contents(cwd, <<".">>)
                   /\ selected' = 0
                   /\ scroll' = 0
                   /\ pc' = "draw"
                   /\ UNCHANGED outcome
              ELSE ReturnErr /\ UNCHANGED nav
    /\ UNCHANGED <<cwd, overflow_checks, raw_mode, alt_screen, teardown, frame, h1, h2>>

-----------------------------------------------------------------------------
(* One iteration of the loop: terminal.draw, then event::read.              *)

\* The list pane: files.iter().skip(scroll).take(display_count).enumerate()
ListRows(fs, sel, scr) ==
    LET shown == IF Len(fs) > scr THEN Min(display_count, Len(fs) - scr) ELSE 0 IN
    [i \in 1..shown |->
        [display_index |-> (i - 1) + scr,
         file_name |-> FileName(fs[i + scr].path),
         is_dir |-> fs[i + scr].is_dir,
         highlighted |-> ((i - 1) + scr = sel)]]

\* Variant of Painted that previews directories like files.
PaintedPreviewsAll(wd, fs, sel, scr) ==
    [rows |-> ListRows(fs, sel, scr),
     preview |-> read_file_preview(wd, fs[sel + 1].path),
     info |-> generate_file_info(wd, fs[sel + 1].path),
     inspected |-> {"read_file_preview", "generate_file_info"}]

\* The preview pane and the file-info pane, and the inspector calls made.
Painted(wd, fs, sel, scr) ==
    [rows |-> ListRows(fs, sel, scr),
     preview |-> IF fs[sel + 1].is_dir
                    THEN <<"Directory selected - no preview available">>
                    ELSE read_file_preview(wd, fs[sel + 1].path),
     info |-> generate_file_info(wd, fs[sel + 1].path),
     inspected |-> (IF fs[sel + 1].is_dir THEN {} ELSE {"read_file_preview"})
                    \cup {"generate_file_info"}]

\* terminal.draw(|f| ...)?  The closure indexes files[selected] unguarded,
\* and generate_file_info may panic inside it.
Draw ==
    /\ pc = "draw"
    /\ \E ok \in BOOLEAN :
        IF ~ok THEN ReturnErr /\ UNCHANGED frame
        ELSE IF selected >= Len(files) THEN Panic /\ UNCHANGED frame
        ELSE IF InfoPanics(cwd, files[selected + 1].path) THEN Panic /\ UNCHANGED frame
        ELSE /\ frame' = Painted(cwd, files, selected, scroll)
             /\ pc' = "read"
             /\ UNCHANGED outcome
    /\ UNCHANGED <<cwd, overflow_checks, raw_mode, alt_screen, teardown, nav, h1, h2>>

\* event::read()? fails.
ReadErr ==
    /\ pc = "read"
    /\ ReturnErr
    /\ UNCHANGED <<cwd, overflow_checks, raw_mode, alt_screen, teardown, nav, frame,
                   h1, h2>>

\* KeyCode::Char('q') => break
KeyQuit ==
    /\ pc = "read"
    /\ Record("q")
    /\ pc' = "leave_alt"
    /\ UNCHANGED <<cwd, overflow_checks, outcome, raw_mode, alt_screen, teardown, nav,
                   frame>>

\* Variant of MoveDown whose bound test is off by one.
MoveDownOffByOne(sel, scr, n) ==
    IF n = 0 \/ sel < n
        THEN [selected |-> sel + 1,
              scroll |-> IF sel + 1 >= scr + display_count
                            THEN (sel + 1) - display_count + 1
                            ELSE scr]
        ELSE [selected |-> sel, scroll |-> scr]

\* Variant of MoveDown that wraps to the first entry after the last.
MoveDownWrap(sel, scr, n) ==
    IF n = 0 \/ sel < n - 1
        THEN [selected |-> sel + 1,
              scroll |-> IF sel + 1 >= scr + display_count
                            THEN (sel + 1) - display_count + 1
                            ELSE scr]
        ELSE [selected |-> 0, scroll |-> 0]

\* KeyCode::Down on n >= 1 entries.  For n = 0 the usize files.len() - 1 has
\* wrapped to usize::MAX (release build), so the comparison is true.
MoveDown(sel, scr, n) ==
    IF n = 0 \/ sel < n - 1
        THEN [selected |-> sel + 1,
              scroll |-> IF sel + 1 >= scr + display_count
                            THEN (sel + 1) - display_count + 1
                            ELSE scr]
        ELSE [selected |-> sel, scroll |-> scr]

\* KeyCode::Down
KeyDown ==
    /\ pc = "read"
    /\ Record("Down")
    /\ IF Len(files) = 0 /\ overflow_checks
          THEN Panic /\ UNCHANGED <<selected, scroll>>
          ELSE /\ selected' = MoveDown(selected, scroll, Len(files)).selected
               /\ scroll' = MoveDown(selected, scroll, Len(files)).scroll
               /\ pc' = "draw"
               /\ UNCHANGED outcome
    /\ UNCHANGED <<cwd, overflow_checks, raw_mode, alt_screen, teardown, current_path,
                   files, frame>>

\* Variant of MoveUp whose bound test is off by one.
MoveUpOffByOne(sel, scr) ==
    IF sel > 1
        THEN [selected |-> sel - 1,
              scroll |-> IF sel - 1 < scr THEN sel - 1 ELSE scr]
        ELSE [selected |-> sel, scroll |-> scr]

MoveUp(sel, scr) ==
    IF sel > 0
        THEN [selected |-> sel - 1,
              scroll |-> IF sel - 1 < scr THEN sel - 1 ELSE scr]
        ELSE [selected |-> sel, scroll |-> scr]

\* KeyCode::Up
KeyUp ==
    /\ pc = "read"
    /\ Record("Up")
    /\ selected' = MoveUp(selected, scroll).selected
    /\ scroll' = MoveUp(selected, scroll).scroll
    /\ pc' = "draw"
    /\ UNCHANGED <<cwd, overflow_checks, outcome, raw_mode, alt_screen, teardown,
                   current_path, files, frame>>

\* format!("{}/{}", current_path, files[selected].path.trim_start_matches("./"))
EnterPath(cur, entry_path) == cur \o TrimDotSlash(entry_path)

\* The navigation state after Enter on a directory entry; scroll is not assigned.
EnterDir(wd, cur, entry_path, scr) ==
    [current_path |-> EnterPath(cur, entry_path),
     files |-> list_directory_contents(wd, EnterPath(cur, entry_path)),
     selected |-> 0,
     scroll |-> scr]

\* Variant of Enter that does not look at is_dir.
EnterAnyEntry(wd, cur, fs, sel, scr) == EnterDir(wd, cur, fs[sel + 1].path, scr)

\* The navigation state after Enter: only a directory entry is entered.
Enter(wd, cur, fs, sel, scr) ==
    IF fs[sel + 1].is_dir
        THEN EnterDir(wd, cur, fs[sel + 1].path, scr)
        ELSE [current_path |-> cur, files |-> fs, selected |-> sel, scroll |-> scr]

\* KeyCode::Enter
KeyEnter ==
    /\ pc = "read"
    /\ Record("Enter")
    /\ IF selected >= Len(files) THEN Panic /\ UNCHANGED nav
       ELSE /\ pc' = "draw"
            /\ UNCHANGED outcome
            /\ LET n == Enter(cwd, current_path, files, selected, scroll) IN
                /\ current_path' = n.current_path
                /\ files' = n.files
                /\ selected' = n.selected
                /\ scroll' = n.scroll
    /\ UNCHANGED <<cwd, overflow_checks, raw_mode, alt_screen, teardown, frame>>

\* Path::new(&current_path).canonicalize(): the node, or NoNode on Err.
Canonicalize(wd, p) == Resolve(wd, p)

\* Variant of HasParent that finds a parent at the root too.
HasParentAlways(node) == TRUE

\* canonical_path.parent(): None at the root.
HasParent(node) == node # Root

Parent(node) == SubSeq(node, 1, Len(node) - 1)

\* Variant of Ascend that takes the parent of current_path as written,
\* without canonicalizing it first.
AscendRawParent(wd, cur, fs, sel, scr) ==
    IF Len(cur) > 1
        THEN [current_path |-> SubSeq(cur, 1, Len(cur) - 1),
              files |-> list_directory_contents(wd, SubSeq(cur, 1, Len(cur) - 1)),
              selected |-> 0,
              scroll |-> scr]
        ELSE [current_path |-> cur, files |-> fs, selected |-> sel, scroll |-> scr]

\* The navigation state after Backspace; scroll is not assigned.
Ascend(wd, cur, fs, sel, scr) ==
    LET c == Canonicalize(wd, cur) IN
    IF c # NoNode /\ HasParent(c)
        THEN [current_path |-> AbsString(Parent(c)),
              files |-> list_directory_contents(wd, AbsString(Parent(c))),
              selected |-> 0,
              scroll |-> scr]
        ELSE [current_path |-> cur, files |-> fs, selected |-> sel, scroll |-> scr]

\* KeyCode::Backspace
KeyBackspace ==
    /\ pc = "read"
    /\ Record("Backspace")
    /\ LET n == Ascend(cwd, current_path, files, selected, scroll) IN
        /\ current_path' = n.current_path
        /\ files' = n.files
        /\ selected' = n.selected
        /\ scroll' = n.scroll
    /\ pc' = "draw"
    /\ UNCHANGED <<cwd, overflow_checks, outcome, raw_mode, alt_screen, teardown, frame>>

\* Any other key, and any event that is not a key: _ => {}
OtherEvents == {"OtherKey", "NonKey"}

\* Variant of OtherEvent in which an unbound event resets the selection.
OtherEventResets ==
    /\ pc = "read"
    /\ \E ev \in OtherEvents : Record(ev)
    /\ pc' = "draw"
    /\ selected' = 0
    /\ UNCHANGED <<cwd, overflow_checks, outcome, raw_mode, alt_screen, teardown,
                   current_path, files, scroll, frame>>

OtherEvent ==
    /\ pc = "read"
    /\ \E ev \in OtherEvents : Record(ev)
    /\ pc' = "draw"
    /\ UNCHANGED <<cwd, overflow_checks, outcome, raw_mode, alt_screen, teardown, nav,
                   frame>>

\* execute!(terminal.backend_mut(), LeaveAlternateScreen)?
LeaveAlternateScreen ==
    /\ pc = "leave_alt"
    /\ teardown' = teardown \cup {"LeaveAlternateScreen"}
    /\ \E ok \in BOOLEAN :
        IF ok THEN alt_screen' = FALSE /\ pc' = "disable_raw" /\ UNCHANGED outcome
              ELSE ReturnErr /\ UNCHANGED alt_screen
    /\ UNCHANGED <<cwd, overflow_checks, raw_mode, nav, frame, h1, h2>>

\* disable_raw_mode()?; Ok(())
DisableRawMode ==
    /\ pc = "disable_raw"
    /\ teardown' = teardown \cup {"disable_raw_mode"}
    /\ \E ok \in BOOLEAN :
        IF ok THEN raw_mode' = FALSE /\ pc' = "exited" /\ outcome' = "Ok"
              ELSE ReturnErr /\ UNCHANGED raw_mode
    /\ UNCHANGED <<cwd, overflow_checks, alt_screen, nav, frame, h1, h2>>

Next ==
    \/ EnableRawMode
    \/ EnterAlternateScreen
    \/ TerminalNew
    \/ Draw
    \/ ReadErr
    \/ KeyQuit
    \/ KeyDown
    \/ KeyUp
    \/ KeyEnter
    \/ KeyBackspace
    \/ OtherEvent
    \/ LeaveAlternateScreen
    \/ DisableRawMode

Spec == Init /\ [][Next]_vars

-----------------------------------------------------------------------------
(* Properties.                                                              *)

\* The navigation state exists: main is inside the loop.
InLoop == pc \in {"draw", "read"}

\* The navigation state the last event was applied to.
Before == <<h1.path, h1.files, h1.sel, h1.scroll>>

\* The last event was applied to a state with a selected entry.
HadSelection == h1.sel < Len(h1.files)

SelectedBefore == h1.files[h1.sel + 1]

\* A directory node whose listing succeeds.
Listable(node) == node \in Dirs /\ node \notin Unreadable /\ node \notin ListDenied

\* The names of the entries of a listing.
Names(fs) == [i \in 1..Len(fs) |-> FileName(fs[i].path)]

\* C1: in every state of the loop with a non-empty entry list,
\* 0 <= scroll <= selected < scroll + display_count: the selected row is
\* inside the painted window, also after Enter and Backspace.
C1_SelectedInWindow ==
    (InLoop /\ Len(files) > 0) =>
        (0 <= scroll /\ scroll <= selected /\ selected < scroll + display_count)

\* C2: in every state, 0 <= selected < Len(files) when files is non-empty and
\* selected = 0 when files is empty.
C2_SelectedInBounds ==
    /\ Len(files) > 0 => (0 <= selected /\ selected < Len(files))
    /\ Len(files) = 0 => selected = 0

\* C2 witness: Down was pressed on the last entry of a list that needs
\* scrolling, right after the Down that selected it.
C2_Witness ==
    /\ pc = "read"
    /\ h1.ev = "Down" /\ h1.sel = Len(h1.files) - 1 /\ Len(h1.files) > display_count
    /\ h2.ev = "Down" /\ h2.sel = Len(h1.files) - 2

\* C3: a current directory with zero children never aborts the program:
\* with files empty no panic (index out of range, usize underflow) happens.
C3_EmptyDirNoAbort == Len(files) = 0 => outcome # "panic"

\* C4: when the listing performed by Enter or Backspace fails, the navigation
\* state is what it was before the key press.
C4_FailedListingKeepsState ==
    /\ (h1.ev = "Enter" /\ HadSelection /\ SelectedBefore.is_dir
          /\ ~Listable(Resolve(cwd, EnterPath(h1.path, SelectedBefore.path))))
        => nav = Before
    /\ (h1.ev = "Backspace" /\ Canonicalize(cwd, h1.path) # NoNode
          /\ HasParent(Canonicalize(cwd, h1.path))
          /\ ~Listable(Parent(Canonicalize(cwd, h1.path))))
        => nav = Before

\* C5: whenever main has returned with the terminal still in raw mode or on
\* the alternate screen, the teardown of lines 220-221 has been run.
C5_TeardownBeforeReturn ==
    (pc = "exited" /\ outcome \in {"Ok", "Err"} /\ (raw_mode \/ alt_screen))
        => teardown # {}

\* C6: Enter on a directory entry that exists and is listable makes
\* current_path name that directory and files its immediate children, at
\* every depth.
C6_EnterDescends ==
    (h1.ev = "Enter" /\ HadSelection /\ SelectedBefore.is_dir
       /\ Listable(Resolve(cwd, SelectedBefore.path)))
        => /\ Resolve(cwd, current_path) = Resolve(cwd, SelectedBefore.path)
           /\ Names(files) = Children(Resolve(cwd, SelectedBefore.path))

\* A directory change by the last event succeeded.
ChangedDir ==
    \/ h1.ev = "Enter" /\ HadSelection /\ SelectedBefore.is_dir
         /\ Listable(Resolve(cwd, current_path))
    \/ h1.ev = "Backspace" /\ Canonicalize(cwd, h1.path) # NoNode
         /\ HasParent(Canonicalize(cwd, h1.path))
         /\ Listable(Resolve(cwd, current_path))

\* C7: after every successful directory change, by Enter or by Backspace,
\* selected = 0 and scroll = 0.
C7_ResetAfterChange == ChangedDir => (selected = 0 /\ scroll = 0)

\* C8: Enter on a file entry leaves current_path, files, selected and scroll
\* unchanged.
C8_EnterOnFileNoop ==
    (h1.ev = "Enter" /\ HadSelection /\ ~SelectedBefore.is_dir) => nav = Before

\* C8 witness: Enter was pressed on a file, in a scrolled list.
C8_Witness ==
    /\ pc = "read"
    /\ h1.ev = "Enter" /\ HadSelection /\ ~SelectedBefore.is_dir
    /\ h1.sel >= display_count

\* C9: Down on the last entry and Up on the first leave selected, scroll,
\* files and current_path unchanged.
C9_Clamped ==
    /\ (h1.ev = "Down" /\ Len(h1.files) > 0 /\ h1.sel = Len(h1.files) - 1)
        => nav = Before
    /\ (h1.ev = "Up" /\ h1.sel = 0) => nav = Before

\* C9 witness: Down was pressed twice in a row on the last entry.
C9_Witness ==
    /\ pc = "read"
    /\ h1.ev = "Down" /\ Len(h1.files) > 1 /\ h1.sel = Len(h1.files) - 1
    /\ h2.ev = "Down" /\ h2.sel = Len(h2.files) - 1 /\ h2.files = h1.files

\* C10: Down from an entry that is not the last, followed at once by Up,
\* returns selected to its value before the Down.
C10_DownUpInverse ==
    (h2.ev = "Down" /\ h1.ev = "Up" /\ Len(h2.files) > 0
       /\ h2.sel < Len(h2.files) - 1)
        => selected = h2.sel

\* C10 witness: Down then Up, where the Down scrolled the window.
C10_Witness ==
    /\ pc = "read"
    /\ h2.ev = "Down" /\ h1.ev = "Up" /\ h2.sel < Len(h2.files) - 1
    /\ h1.scroll > h2.scroll

\* The entry selected in the frame just painted.
Selected == files[selected + 1]

NoPreviewMessage == <<"Directory selected - no preview available">>

\* C11: Backspace pressed while current_path resolves to the filesystem root
\* leaves current_path, files, selected and scroll unchanged.
C11_AscendAtRootNoop ==
    (h1.ev = "Backspace" /\ Canonicalize(cwd, h1.path) = Root) => nav = Before

\* C11 witness: the root was reached by Backspace and Backspace was pressed
\* again there.
C11_Witness ==
    /\ pc = "read"
    /\ h1.ev = "Backspace" /\ Canonicalize(cwd, h1.path) = Root
    /\ h2.ev = "Backspace" /\ h2.path # h1.path

\* C12 as claimed: in a frame whose selected entry is a directory no inspector
\* query at all is made and the fixed message is shown.
C12_NoInspectorForDir ==
    (pc = "read" /\ Selected.is_dir)
        => (frame.inspected = {} /\ frame.preview = NoPreviewMessage)

\* C12 amended: in a frame whose selected entry is a directory the preview
\* query is not made and the fixed message is shown; the metadata query is
\* made for the directory's path.
C12_NoPreviewForDir ==
    (pc = "read" /\ Selected.is_dir)
        => /\ "read_file_preview" \notin frame.inspected
           /\ frame.preview = NoPreviewMessage
           /\ "generate_file_info" \in frame.inspected
           /\ frame.info.name = Selected.path

\* C12 witness: a frame was painted with a directory selected below the
\* first row.
C12_Witness == pc = "read" /\ Selected.is_dir /\ selected > 0

\* The file node behind the selected entry, and whether it can be opened.
SelectedNode == Resolve(cwd, Selected.path)

Openable(node) == node # NoNode /\ node \notin Unopenable

\* The first MAX_LINES lines of a file are all readable.
HeadReadable(node) ==
    \A i \in 1..Min(MAX_LINES, Len(Lines(node))) : Lines(node)[i] # BadLine

OutsideOldWindow ==
    selected < h1.scroll \/ selected >= h1.scroll + display_count

\* C14: Down and Up leave current_path and files unchanged, and change scroll
\* exactly when the new selection is outside the old window: Down then sets
\* scroll = selected - display_count + 1 and Up sets scroll = selected.
C14_ScrollFollows ==
    /\ (h1.ev = "Down" /\ Len(h1.files) > 0 /\ outcome # "panic") =>
        /\ current_path = h1.path /\ files = h1.files
        /\ scroll = IF OutsideOldWindow THEN selected - display_count + 1
                                        ELSE h1.scroll
    /\ h1.ev = "Up" =>
        /\ current_path = h1.path /\ files = h1.files
        /\ scroll = IF OutsideOldWindow THEN selected ELSE h1.scroll

\* The directory current_path resolved to when the last event was read.
DirBefore == Canonicalize(cwd, h1.path)

\* The last event was Backspace in a directory that has a parent.
AscendedFromChild ==
    h1.ev = "Backspace" /\ DirBefore \in Dirs /\ HasParent(DirBefore)

C16_OtherEventIgnored ==
    h1.ev \in OtherEvents =>
        /\ nav = Before
        /\ outcome \in {"running", "Err"}
        /\ outcome = "running" => InLoop

\* C16 witness: a non-key event and another key were read one after the
\* other with a selection away from the first row, and the next frame was
\* painted.
C16_Witness ==
    /\ pc = "read"
    /\ h1.ev = "NonKey" /\ h2.ev = "OtherKey"
    /\ h1.sel > 0 /\ h1.scroll > 0

\* The entry that was selected when the event before the last was read.
SelectedBefore2 == h2.files[h2.sel + 1]

\* C17: Enter on a directory entry that exists and is listable, followed at
\* once by Backspace, ends in the directory Enter was pressed in: current_path
\* resolves to it, files are its children, and selected = 0.
C17_EnterAscendRoundTrip ==
    (h2.ev = "Enter" /\ h2.sel < Len(h2.files) /\ SelectedBefore2.is_dir
       /\ Listable(Resolve(cwd, SelectedBefore2.path))
       /\ h1.ev = "Backspace")
        => /\ Resolve(cwd, current_path) = Resolve(cwd, h2.path)
           /\ Names(files) = Children(Resolve(cwd, h2.path))
           /\ selected = 0

====
